---- MODULE Spec2Model ----
(***************************************************************************)
(* Basis private tracker (basis-private-tracker): the tracker state        *)
(* machine of types.rs and tracker.rs.                                     *)
(*                                                                         *)
(* Amounts are u64 nanoERG in the source.  TLC's integers are 32 bits      *)
(* wide, so every amount of the model is counted in units of 0.1 ERG       *)
(* (100_000_000 nanoERG): 1 ERG = 10, 100 ERG = 1000.  Note counters are   *)
(* plain counts.                                                           *)
(***************************************************************************)
EXTENDS Integers, Sequences, FiniteSets, TLC

(* ------------------------------ bounds -------------------------------- *)

\* Deposit transaction ids are 1..MaxDeposit.
MaxDeposit == 2

\* Note serials are 1..MaxSerial.
MaxSerial == 2

\* Calls followed in a logged sequence of issuance calls.
MaxCalls == 4

DepositIds == 1..MaxDeposit

Serials == 1..MaxSerial

(* ------------------------- program constants -------------------------- *)

\* tracker.rs:102-105, in units of 0.1 ERG.
DENOM_01_ERG == 1

DENOM_1_ERG == 10

DENOM_10_ERG == 100

DENOM_100_ERG == 1000

\* tracker.rs:258: the denomination get_proof_of_reserves assumes (1 ERG).
POR_DENOMINATION == 10

\* PrivateBasisTracker::new: the catalog of allowed denominations.
allowed_denominations == {DENOM_01_ERG, DENOM_1_ERG, DENOM_10_ERG, DENOM_100_ERG}

(* ------------------------------ inputs -------------------------------- *)

\* The reserve's mint public key (the first byte of the 33-byte mock key of
\* the tests).
ReserveMintKeys == {2}

\* Receiver public keys of redemption requests.
ReceiverKeys == {3, 4}

\* Byte vectors (Vec<u8>, [u8; 32]) are held run-length encoded: a sequence
\* of runs [n, b] of n bytes equal to b, adjacent runs differing in b.  The
\* empty vector is << >>.  ByteVec(len, b) is the vector of len bytes b.
ByteVec(len, b) == IF len = 0 THEN << >> ELSE <<[n |-> len, b |-> b]>>

RECURSIVE ByteLen(_)
ByteLen(v) == IF v = << >> THEN 0 ELSE v[1].n + ByteLen(Tail(v))

RECURSIVE ByteAt(_, _)
ByteAt(v, i) == IF i <= v[1].n THEN v[1].b ELSE ByteAt(Tail(v), i - v[1].n)

\* Denominations the callers put in a request for issuance: two of the
\* catalog (1 ERG, 100 ERG) and one amount outside it (0.7 ERG).
RequestDenominations == {DENOM_1_ERG, DENOM_100_ERG, 7}

\* Blinded commitments of issuance requests.
BlindedCommitments == {ByteVec(2, 3)}

\* Denominations of notes and of finalize_redemption calls (any u64).
NoteDenominations == {DENOM_1_ERG, DENOM_100_ERG}

\* Reserve balances at construction (any u64): 1 ERG and 100 ERG.
InitialBalances == {DENOM_1_ERG, DENOM_100_ERG}

\* Outcomes of the thread-local random generator: one byte value fills a
\* whole placeholder vector.
RandomBytes == {7}

\* Readings of the system clock (milliseconds since the epoch).
Timestamps == {0, 1}

(* ------------------------------ types.rs ------------------------------ *)

\* u64 arithmetic wraps at 2^64 in a release build.  The model narrows the
\* word to 20 bits, which keeps every product inside TLC's integers and is
\* far above every amount and count the model reaches.
U64_MODULUS == 2 ^ 20

\* PublicKey::from_bytes: a 33-byte compressed key filled with one byte.
PublicKey_from_bytes(b) == [bytes |-> ByteVec(33, b)]

\* BlindSignature::new
BlindSignature_new(a, z) == [a |-> a, z |-> z]

\* A byte vector byte by byte, and the run-length encoding of a byte
\* sequence.
ByteSeq(v) == [i \in 1..ByteLen(v) |-> ByteAt(v, i)]

ByteRuns(bytes) ==
    LET starts == {i \in 1..Len(bytes) : i = 1 \/ bytes[i] # bytes[i - 1]}
        ends   == {i \in 1..Len(bytes) : i = Len(bytes) \/ bytes[i] # bytes[i + 1]}
        start(k) == CHOOSE i \in starts : Cardinality({j \in starts : j < i}) = k - 1
        end(k)   == CHOOSE i \in ends : Cardinality({j \in ends : j < i}) = k - 1
    IN  [k \in 1..Cardinality(starts) |->
            [n |-> end(k) - start(k) + 1, b |-> bytes[start(k)]]]

\* Vec::extend_from_slice: b appended to a.
ByteConcat(a, b) == ByteRuns(ByteSeq(a) \o ByteSeq(b))

\* bytes[from..to].to_vec(): the bytes at the offsets from, .., to - 1.
ByteSlice(v, from, to) == ByteRuns(SubSeq(ByteSeq(v), from + 1, to))

\* BlindSignature::to_bytes: a, then z.
BlindSignature_to_bytes(sig) == ByteConcat(sig.a, sig.z)

\* BlindSignature::from_bytes: Err(String) unless 65 bytes are given.
BlindSignature_from_bytes(bytes) ==
    IF ByteLen(bytes) # 65
    THEN [kind |-> "Err", payload |-> ByteLen(bytes)]
    ELSE [kind |-> "Ok",
          value |-> [a |-> ByteSlice(bytes, 0, 33), z |-> ByteSlice(bytes, 33, 65)]]

\* PrivateNote::new
PrivateNote_new(denomination, serial, blind_signature) ==
    [denomination |-> denomination, serial |-> serial,
     blind_signature |-> blind_signature]

\* Mutation of Nullifier::compute: the mint key is not hashed.
Nullifier_compute_keyless(serial, mint_pubkey) ==
    <<"nullifier", serial>>

\* Nullifier::compute: Blake2b256(Blake2b256("nullifier") || serial || key).
\* The serial has a fixed length, so the hashed string determines the pair;
\* the hash is collision free on the model's inputs and is modelled by the
\* pair it hashes under its domain-separation tag.
Nullifier_compute(serial, mint_pubkey) ==
    <<"nullifier", serial, mint_pubkey.bytes>>

\* Mutation of nullifier: the note's denomination enters the nullifier.
nullifier_with_denomination(note, mint_pubkey) ==
    Nullifier_compute(note.serial, mint_pubkey) \o <<note.denomination>>

\* PrivateNote::nullifier
nullifier(note, mint_pubkey) == Nullifier_compute(note.serial, mint_pubkey)

\* PrivateNote::verify_signature: the placeholder check of the source.
verify_signature(note, mint_pubkey) ==
    note.blind_signature.a # <<>> /\ note.blind_signature.z # <<>>

\* ReserveState::new
ReserveState_new(reserve_nft, mint_pubkey, erg_balance, nullifier_tree_root, tracker_nft) ==
    [reserve_nft |-> reserve_nft, mint_pubkey |-> mint_pubkey,
     erg_balance |-> erg_balance, nullifier_tree_root |-> nullifier_tree_root,
     tracker_nft |-> tracker_nft]

\* ReserveState::is_solvent
is_solvent(rs, outstanding_value) == rs.erg_balance >= outstanding_value

\* TrackerState::new
TrackerState_new(tracker_nft) ==
    [tracker_nft |-> tracker_nft, spent_nullifiers |-> {},
     issued_notes_count |-> 0, redeemed_notes_count |-> 0]

\* TrackerState::is_spent
is_spent(ts, n) == n \in ts.spent_nullifiers

\* Mutation of mark_spent: the spent check is left out.
mark_spent_unchecked(ts, n) ==
    [ok |-> TRUE,
     state |-> [ts EXCEPT !.spent_nullifiers = @ \cup {n},
                          !.redeemed_notes_count = @ + 1],
     err |-> ""]

\* Mutation of mark_spent: the spent set is overwritten, not extended.
mark_spent_overwriting(ts, n) ==
    IF is_spent(ts, n)
    THEN [ok |-> FALSE, state |-> ts,
          err |-> "Nullifier already spent (double-spend attempt)"]
    ELSE [ok |-> TRUE,
          state |-> [ts EXCEPT !.spent_nullifiers = {n},
                               !.redeemed_notes_count = @ + 1],
          err |-> ""]

\* TrackerState::mark_spent: Err(String) when already spent, else the
\* nullifier is inserted and redeemed_notes_count incremented.
mark_spent(ts, n) ==
    IF is_spent(ts, n)
    THEN [ok |-> FALSE, state |-> ts,
          err |-> "Nullifier already spent (double-spend attempt)"]
    ELSE [ok |-> TRUE,
          state |-> [ts EXCEPT !.spent_nullifiers = @ \cup {n},
                               !.redeemed_notes_count = @ + 1],
          err |-> ""]

\* Mutation of record_issuance: the issuance is not counted.
record_issuance_uncounted(ts) == ts

\* TrackerState::record_issuance
record_issuance(ts) == [ts EXCEPT !.issued_notes_count = @ + 1]

\* TrackerState::outstanding_notes.  issued - redeemed and the product are
\* unchecked u64 operations: with overflow checks (a debug build) an
\* underflow or overflow panics, without them (a release build) it wraps.
outstanding_notes(ts, denomination, overflow_checks) ==
    LET diff    == ts.issued_notes_count - ts.redeemed_notes_count
        count   == diff % U64_MODULUS
        product == count * denomination
    IN  IF overflow_checks /\ (diff < 0 \/ product >= U64_MODULUS)
        THEN [panic |-> TRUE, value |-> 0]
        ELSE [panic |-> FALSE, value |-> product % U64_MODULUS]

\* Mutation of checked_sub: nothing is subtracted.
checked_sub_uncharged(a, b) == IF b > a THEN -1 ELSE a

\* u64::checked_sub: None (here -1) when the subtraction would underflow.
checked_sub(a, b) == IF b > a THEN -1 ELSE a - b

\* hex::encode: two hexadecimal digits (as their values) per byte.
hex_encode(bytes) ==
    [i \in 1..(2 * ByteLen(bytes)) |->
        IF i % 2 = 1 THEN ByteAt(bytes, (i + 1) \div 2) \div 16
                     ELSE ByteAt(bytes, i \div 2) % 16]

(* ----------------------------- tracker.rs ----------------------------- *)

\* TrackerResult: Ok(value) or Err(TrackerError); an error carries its kind
\* and the payload of its variant.
Ok(value) == [kind |-> "Ok", value |-> value]

Err(kind, payload) == [kind |-> kind, payload |-> payload]

\* Mutation of map_insert: an entry already held under the key is kept.
map_insert_keeping(m, k, v) == [x \in (DOMAIN m) \cup {k} |-> IF x \in DOMAIN m THEN m[x] ELSE v]

\* HashMap::insert and HashMap::remove on a map held as a function.
map_insert(m, k, v) == [x \in (DOMAIN m) \cup {k} |-> IF x = k THEN v ELSE m[x]]

map_remove(m, k) == [x \in (DOMAIN m) \ {k} |-> m[x]]

\* PrivateBasisTracker::new
PrivateBasisTracker_new(rs, tracker_nft) ==
    [reserve |-> rs,
     tracker_state |-> TrackerState_new(tracker_nft),
     pending_issuances |-> <<>>,
     processed_deposits |-> {},
     allowed_denominations |-> allowed_denominations]

\* Mutation of request_blind_issuance: the processed-deposit check is left
\* out.
request_blind_issuance_unchecked(self, request) ==
    IF request.denomination \notin self.allowed_denominations
    THEN [self |-> self,
          result |-> Err("InvalidDenomination", request.denomination)]
    ELSE [self |-> [self EXCEPT !.pending_issuances =
                        map_insert(@, request.deposit_tx_id, request)],
          result |-> Ok(<<>>)]

\* Mutation of request_blind_issuance: the denomination check is left out.
request_blind_issuance_any_amount(self, request) ==
    IF request.deposit_tx_id \in self.processed_deposits
    THEN [self |-> self,
          result |-> Err("InternalError", "Deposit already used for issuance")]
    ELSE [self |-> [self EXCEPT !.pending_issuances =
                        map_insert(@, request.deposit_tx_id, request)],
          result |-> Ok(<<>>)]

\* Mutation of request_blind_issuance: the request is counted as an issued
\* note when it is stored.
request_blind_issuance_counting(self, request) ==
    IF request.denomination \notin self.allowed_denominations
    THEN [self |-> self,
          result |-> Err("InvalidDenomination", request.denomination)]
    ELSE IF request.deposit_tx_id \in self.processed_deposits
    THEN [self |-> self,
          result |-> Err("InternalError", "Deposit already used for issuance")]
    ELSE [self |-> [self EXCEPT !.pending_issuances =
                        map_insert(@, request.deposit_tx_id, request),
                    !.tracker_state = record_issuance(@)],
          result |-> Ok(<<>>)]

\* PrivateBasisTracker::request_blind_issuance
request_blind_issuance(self, request) ==
    IF request.denomination \notin self.allowed_denominations
    THEN [self |-> self,
          result |-> Err("InvalidDenomination", request.denomination)]
    ELSE IF request.deposit_tx_id \in self.processed_deposits
    THEN [self |-> self,
          result |-> Err("InternalError", "Deposit already used for issuance")]
    ELSE [self |-> [self EXCEPT !.pending_issuances =
                        map_insert(@, request.deposit_tx_id, request)],
          result |-> Ok(<<>>)]

\* PrivateBasisTracker::create_placeholder_blind_signature: 33 and 32 random
\* bytes; the blinded commitment is not read.
create_placeholder_blind_signature(blinded_commitment, ra, rz) ==
    BlindSignature_new(ByteVec(33, ra), ByteVec(32, rz))

\* Mutation of issue_blind_signature: the deposit's denomination is
\* credited to the reserve balance.
issue_blind_signature_crediting(self, deposit_tx_id, ra, rz, now) ==
    IF deposit_tx_id \notin DOMAIN self.pending_issuances
    THEN [self |-> self, result |-> Err("NoteNotFound", deposit_tx_id)]
    ELSE LET request == self.pending_issuances[deposit_tx_id]
             blind_sig == create_placeholder_blind_signature(
                              request.blinded_commitment, ra, rz)
         IN  [self |-> [self EXCEPT
                    !.pending_issuances = map_remove(@, deposit_tx_id),
                    !.processed_deposits = @ \cup {deposit_tx_id},
                    !.tracker_state = record_issuance(@),
                    !.reserve.erg_balance = @ + request.denomination],
              result |-> Ok([blind_signature |-> blind_sig,
                             issuance_timestamp |-> now])]

\* Mutation of issue_blind_signature: every pending entry is removed, not
\* the deposit's alone.
issue_blind_signature_draining(self, deposit_tx_id, ra, rz, now) ==
    IF deposit_tx_id \notin DOMAIN self.pending_issuances
    THEN [self |-> self, result |-> Err("NoteNotFound", deposit_tx_id)]
    ELSE LET request == self.pending_issuances[deposit_tx_id]
             blind_sig == create_placeholder_blind_signature(
                              request.blinded_commitment, ra, rz)
         IN  [self |-> [self EXCEPT
                    !.pending_issuances = << >>,
                    !.processed_deposits = @ \cup {deposit_tx_id},
                    !.tracker_state = record_issuance(@)],
              result |-> Ok([blind_signature |-> blind_sig,
                             issuance_timestamp |-> now])]

\* Mutation of issue_blind_signature: a deposit id with no pending entry is
\* signed for as well.
issue_blind_signature_unrequested(self, deposit_tx_id, ra, rz, now) ==
    LET blind_sig == create_placeholder_blind_signature(<< >>, ra, rz)
    IN  [self |-> [self EXCEPT
               !.pending_issuances = map_remove(@, deposit_tx_id),
               !.processed_deposits = @ \cup {deposit_tx_id},
               !.tracker_state = record_issuance(@)],
         result |-> Ok([blind_signature |-> blind_sig,
                        issuance_timestamp |-> now])]

\* PrivateBasisTracker::issue_blind_signature.  ra, rz are the random
\* generator's outcomes and now the clock's reading.
issue_blind_signature(self, deposit_tx_id, ra, rz, now) ==
    IF deposit_tx_id \notin DOMAIN self.pending_issuances
    THEN [self |-> self, result |-> Err("NoteNotFound", deposit_tx_id)]
    ELSE LET request == self.pending_issuances[deposit_tx_id]
             blind_sig == create_placeholder_blind_signature(
                              request.blinded_commitment, ra, rz)
         IN  [self |-> [self EXCEPT
                    !.pending_issuances = map_remove(@, deposit_tx_id),
                    !.processed_deposits = @ \cup {deposit_tx_id},
                    !.tracker_state = record_issuance(@)],
              result |-> Ok([blind_signature |-> blind_sig,
                             issuance_timestamp |-> now])]

\* Mutation of is_nullifier_spent: the lookup always misses.
is_nullifier_spent_never(self, n) == FALSE

\* PrivateBasisTracker::is_nullifier_spent
is_nullifier_spent(self, n) == is_spent(self.tracker_state, n)

\* PrivateBasisTracker::generate_avl_insert_proof: 64 zero bytes.
generate_avl_insert_proof(n) == ByteVec(64, 0)

\* PrivateBasisTracker::sign_redemption: 65 random bytes.
sign_redemption(n, denomination, rs) == ByteVec(65, rs)

\* Mutation of prepare_redemption: a successful call reserves the nullifier
\* by marking it spent.
prepare_redemption_reserving(self, request, rs) ==
    LET note == request.note
        n    == nullifier(note, self.reserve.mint_pubkey)
    IN  IF ~verify_signature(note, self.reserve.mint_pubkey)
        THEN [self |-> self, result |-> Err("InvalidSignature", <<>>)]
        ELSE IF is_nullifier_spent(self, n)
        THEN [self |-> self, result |-> Err("DoubleSpend", <<>>)]
        ELSE IF self.reserve.erg_balance < note.denomination
        THEN [self |-> self, result |-> Err("InsufficientReserve", <<>>)]
        ELSE [self |-> [self EXCEPT !.tracker_state =
                            mark_spent(self.tracker_state, n).state],
              result |-> Ok([reserve_input_id |-> hex_encode(self.reserve.reserve_nft),
                             nullifier |-> n,
                             denomination |-> note.denomination,
                             serial |-> note.serial,
                             blind_signature |-> note.blind_signature,
                             receiver_pubkey |-> request.receiver_pubkey,
                             avl_proof |-> generate_avl_insert_proof(n),
                             tracker_signature |->
                                 sign_redemption(n, note.denomination, rs)])]

\* Mutation of prepare_redemption: the reserve is checked first, the
\* signature last.
prepare_redemption_reserve_first(self, request, rs) ==
    LET note == request.note
        n    == nullifier(note, self.reserve.mint_pubkey)
    IN  IF self.reserve.erg_balance < note.denomination
        THEN [self |-> self, result |-> Err("InsufficientReserve", <<>>)]
        ELSE IF is_nullifier_spent(self, n)
        THEN [self |-> self, result |-> Err("DoubleSpend", <<>>)]
        ELSE IF ~verify_signature(note, self.reserve.mint_pubkey)
        THEN [self |-> self, result |-> Err("InvalidSignature", <<>>)]
        ELSE [self |-> self,
              result |-> Ok([reserve_input_id |-> hex_encode(self.reserve.reserve_nft),
                             nullifier |-> n,
                             denomination |-> note.denomination,
                             serial |-> note.serial,
                             blind_signature |-> note.blind_signature,
                             receiver_pubkey |-> request.receiver_pubkey,
                             avl_proof |-> generate_avl_insert_proof(n),
                             tracker_signature |->
                                 sign_redemption(n, note.denomination, rs)])]

\* Mutation of prepare_redemption: a reserve equal to the denomination is
\* refused.
prepare_redemption_strict(self, request, rs) ==
    LET note == request.note
        n    == nullifier(note, self.reserve.mint_pubkey)
    IN  IF ~verify_signature(note, self.reserve.mint_pubkey)
        THEN [self |-> self, result |-> Err("InvalidSignature", <<>>)]
        ELSE IF is_nullifier_spent(self, n)
        THEN [self |-> self, result |-> Err("DoubleSpend", <<>>)]
        ELSE IF self.reserve.erg_balance <= note.denomination
        THEN [self |-> self, result |-> Err("InsufficientReserve", <<>>)]
        ELSE [self |-> self,
              result |-> Ok([reserve_input_id |-> hex_encode(self.reserve.reserve_nft),
                             nullifier |-> n,
                             denomination |-> note.denomination,
                             serial |-> note.serial,
                             blind_signature |-> note.blind_signature,
                             receiver_pubkey |-> request.receiver_pubkey,
                             avl_proof |-> generate_avl_insert_proof(n),
                             tracker_signature |->
                                 sign_redemption(n, note.denomination, rs)])]

\* PrivateBasisTracker::prepare_redemption.  rs is the random generator's
\* outcome.
prepare_redemption(self, request, rs) ==
    LET note == request.note
        n    == nullifier(note, self.reserve.mint_pubkey)
    IN  IF ~verify_signature(note, self.reserve.mint_pubkey)
        THEN [self |-> self, result |-> Err("InvalidSignature", <<>>)]
        ELSE IF is_nullifier_spent(self, n)
        THEN [self |-> self, result |-> Err("DoubleSpend", <<>>)]
        ELSE IF self.reserve.erg_balance < note.denomination
        THEN [self |-> self, result |-> Err("InsufficientReserve", <<>>)]
        ELSE [self |-> self,
              result |-> Ok([reserve_input_id |-> hex_encode(self.reserve.reserve_nft),
                             nullifier |-> n,
                             denomination |-> note.denomination,
                             serial |-> note.serial,
                             blind_signature |-> note.blind_signature,
                             receiver_pubkey |-> request.receiver_pubkey,
                             avl_proof |-> generate_avl_insert_proof(n),
                             tracker_signature |->
                                 sign_redemption(n, note.denomination, rs)])]

\* PrivateBasisTracker::finalize_redemption: mark_spent first, with its
\* error mapped to InternalError; then the checked subtraction, whose
\* failure returns InsufficientReserve after the nullifier was marked.
finalize_redemption(self, n, denomination) ==
    LET marked == mark_spent(self.tracker_state, n)
        after  == [self EXCEPT !.tracker_state = marked.state]
        left   == checked_sub(self.reserve.erg_balance, denomination)
    IN  IF ~marked.ok
        THEN [self |-> self, result |-> Err("InternalError", marked.err)]
        ELSE IF left = -1
        THEN [self |-> after, result |-> Err("InsufficientReserve", <<>>)]
        ELSE [self |-> [after EXCEPT !.reserve.erg_balance = left],
              result |-> Ok(<<>>)]

\* PrivateBasisTracker::get_proof_of_reserves.  overflow_checks is the
\* build's setting; a panic unwinds out of the call.
get_proof_of_reserves(self, overflow_checks) ==
    LET outstanding == outstanding_notes(self.tracker_state, POR_DENOMINATION,
                                         overflow_checks)
    IN  IF outstanding.panic
        THEN [self |-> self, result |-> [kind |-> "Panic"]]
        ELSE [self |-> self,
              result |-> Ok([reserve_erg_balance |-> self.reserve.erg_balance,
                             issued_notes_count |-> self.tracker_state.issued_notes_count,
                             redeemed_notes_count |-> self.tracker_state.redeemed_notes_count,
                             outstanding_value |-> outstanding.value,
                             is_solvent |-> is_solvent(self.reserve, outstanding.value)])]

(* ------------------------------- state -------------------------------- *)

VARIABLES
    reserve,             \* PrivateBasisTracker.reserve
    tracker_state,       \* PrivateBasisTracker.tracker_state
    pending_issuances,   \* PrivateBasisTracker.pending_issuances
    processed_deposits,  \* PrivateBasisTracker.processed_deposits
    last,                \* the last call: its operation, arguments, result
    initial_balance,     \* history: the reserve balance at construction
    issue_successes,     \* history: successful issue_blind_signature calls per id
    finalize_successes,  \* history: successful finalize_redemption calls per nullifier
    redeemed_value,      \* history: the denominations of the successful
                         \* finalize_redemption calls, summed
    notes,               \* holders: deposit id -> the note built from its issuance
    only_issued,         \* history: every finalize_redemption so far named the
                         \* nullifier of a note some holder holds
    redeemers,           \* the racing redeemers of one note: position, tx data
    race_log,            \* history: the calls of the scenario followed (the
                         \* racing redeemers', the depositors'), in order
    computed             \* history: the Nullifier::compute calls made, each
                         \* with its inputs and its output

trackerVars == <<reserve, tracker_state, pending_issuances, processed_deposits>>

historyVars == <<initial_balance, issue_successes, finalize_successes, redeemed_value>>

holderVars == <<notes, only_issued>>

raceVars == <<redeemers, race_log>>

vars == <<reserve, tracker_state, pending_issuances, processed_deposits, last,
          initial_balance, issue_successes, finalize_successes, redeemed_value,
          notes, only_issued, redeemers, race_log, computed>>

\* The tracker as one value, as the operations take it (&self, &mut self).
self ==
    [reserve |-> reserve, tracker_state |-> tracker_state,
     pending_issuances |-> pending_issuances,
     processed_deposits |-> processed_deposits,
     allowed_denominations |-> allowed_denominations]

\* Every nullifier a caller can hand to the tracker.
Nullifiers ==
    {Nullifier_compute(s, PublicKey_from_bytes(k)) : s \in Serials, k \in ReserveMintKeys}

\* BlindIssuanceRequest values.
IssuanceRequests ==
    [denomination : RequestDenominations,
     blinded_commitment : BlindedCommitments,
     deposit_tx_id : DepositIds]

\* Signatures a caller can put on a note: well formed, or with an empty
\* component.
NoteSignatures ==
    {BlindSignature_new(ByteVec(33, 6), ByteVec(32, 7)),
     BlindSignature_new(<<>>, ByteVec(32, 7)),
     BlindSignature_new(ByteVec(33, 6), <<>>)}

\* RedemptionRequest values.
RedemptionRequests ==
    [note : {PrivateNote_new(d, s, sig) :
                d \in NoteDenominations, s \in Serials, sig \in NoteSignatures},
     receiver_pubkey : {PublicKey_from_bytes(k) : k \in ReceiverKeys}]

\* History counters stop at 2: "more than once" is all that is asked.
Bump(f, x) == [f EXCEPT ![x] = IF @ < 2 THEN @ + 1 ELSE @]

\* The kind of a result alone: Ok, or the error's variant.
KindOf(result) == [kind |-> result.kind]

\* A call's effect on the tracker and on the record of the last call; a
\* call on the tracker is no Nullifier::compute call of a caller.
Call(op, args, out, result) ==
    /\ reserve' = out.self.reserve
    /\ tracker_state' = out.self.tracker_state
    /\ pending_issuances' = out.self.pending_issuances
    /\ processed_deposits' = out.self.processed_deposits
    /\ last' = [op |-> op, args |-> args, result |-> result]
    /\ UNCHANGED computed

\* The state after PrivateBasisTracker::new(ReserveState::new(..), ..).
Construct(balance, key) ==
    LET t == PrivateBasisTracker_new(
                 ReserveState_new(ByteVec(32, 1), PublicKey_from_bytes(key),
                                  balance, ByteVec(32, 0), ByteVec(32, 2)),
                 ByteVec(32, 2))
    IN  /\ reserve = t.reserve
        /\ tracker_state = t.tracker_state
        /\ pending_issuances = t.pending_issuances
        /\ processed_deposits = t.processed_deposits
        /\ last = [op |-> "new", args |-> <<>>, result |-> Ok(<<>>)]
        /\ initial_balance = balance
        /\ issue_successes = [d \in DepositIds |-> 0]
        /\ finalize_successes = [n \in Nullifiers |-> 0]
        /\ redeemed_value = 0
        /\ computed = {}

\* No holder and no redeemer is followed: the callers are arbitrary.
Init ==
    /\ \E balance \in InitialBalances, key \in ReserveMintKeys : Construct(balance, key)
    /\ notes = << >>
    /\ only_issued = TRUE
    /\ redeemers = << >>
    /\ race_log = << >>

(* ------------------------- the calls, as steps ------------------------ *)

\* The record of the last call keeps the call's arguments and its result.
\* Of a blind-issuance response and of a redemption's request and
\* transaction data it keeps the result's kind only: the random signature
\* bytes and the clock reading are not state of the tracker, and the claims
\* about a redemption request quantify over the requests.  Each step also
\* keeps the history counters; the holders and the redeemers are left to
\* the action that takes the step.

RequestCall(request) ==
    LET out == request_blind_issuance(self, request)
    IN  /\ Call("request_blind_issuance", request, out, out.result)
        /\ UNCHANGED historyVars

IssueCall(id, ra, rz, now) ==
    LET out == issue_blind_signature(self, id, ra, rz, now)
    IN  /\ Call("issue_blind_signature", [deposit_tx_id |-> id], out,
                KindOf(out.result))
        /\ issue_successes' =
               IF out.result.kind = "Ok" THEN Bump(issue_successes, id)
                                         ELSE issue_successes
        /\ UNCHANGED <<initial_balance, finalize_successes, redeemed_value>>

SpentCall(n) ==
    LET out == [self |-> self, result |-> Ok(is_nullifier_spent(self, n))]
    IN  /\ Call("is_nullifier_spent", [nullifier |-> n], out, out.result)
        /\ UNCHANGED historyVars

PrepareCall(request, rs) ==
    LET out == prepare_redemption(self, request, rs)
    IN  /\ Call("prepare_redemption", << >>, out, KindOf(out.result))
        /\ UNCHANGED historyVars

FinalizeCall(n, denomination) ==
    LET out == finalize_redemption(self, n, denomination)
    IN  /\ Call("finalize_redemption",
                [nullifier |-> n, denomination |-> denomination], out,
                out.result)
        /\ finalize_successes' =
               IF out.result.kind = "Ok" THEN Bump(finalize_successes, n)
                                         ELSE finalize_successes
        /\ redeemed_value' =
               IF out.result.kind = "Ok" THEN redeemed_value + denomination
                                         ELSE redeemed_value
        /\ UNCHANGED <<initial_balance, issue_successes>>

ProofCall(overflow_checks) ==
    LET out == get_proof_of_reserves(self, overflow_checks)
    IN  /\ Call("get_proof_of_reserves", << >>, out, out.result)
        /\ UNCHANGED historyVars

(* ------------------- the public operations, any caller ---------------- *)

RequestBlindIssuance ==
    \E request \in IssuanceRequests :
        RequestCall(request) /\ UNCHANGED <<holderVars, raceVars>>

IssueBlindSignature ==
    \E id \in DepositIds, ra \in RandomBytes, rz \in RandomBytes, now \in Timestamps :
        IssueCall(id, ra, rz, now) /\ UNCHANGED <<holderVars, raceVars>>

IsNullifierSpent ==
    \E n \in Nullifiers :
        SpentCall(n) /\ UNCHANGED <<holderVars, raceVars>>

PrepareRedemption ==
    \E request \in RedemptionRequests, rs \in RandomBytes :
        PrepareCall(request, rs) /\ UNCHANGED <<holderVars, raceVars>>

FinalizeRedemption ==
    \E n \in Nullifiers, denomination \in NoteDenominations :
        FinalizeCall(n, denomination) /\ UNCHANGED <<holderVars, raceVars>>

GetProofOfReserves ==
    \E overflow_checks \in BOOLEAN :
        ProofCall(overflow_checks) /\ UNCHANGED <<holderVars, raceVars>>

Next ==
    \/ RequestBlindIssuance
    \/ IssueBlindSignature
    \/ IsNullifierSpent
    \/ PrepareRedemption
    \/ FinalizeRedemption
    \/ GetProofOfReserves

Spec == Init /\ [][Next]_vars

(* --------------------- holders that keep their notes ------------------- *)

\* The serial a holder chooses for the note of a deposit: as in the
\* repository's tests, the holders' serials are pairwise distinct.
NoteSerial(id) == id

\* The nullifiers of the notes held, under the reserve's mint key.
NoteNullifiers == {nullifier(notes[id], reserve.mint_pubkey) : id \in DOMAIN notes}

\* issue_blind_signature, and on success the holder builds the note from
\* the requested denomination, its serial and the returned signature.
IssueNoteCall(id, ra, rz, now) ==
    LET out == issue_blind_signature(self, id, ra, rz, now)
    IN  /\ IssueCall(id, ra, rz, now)
        /\ notes' =
               IF out.result.kind = "Ok"
               THEN map_insert(notes, id,
                        PrivateNote_new(pending_issuances[id].denomination,
                                        NoteSerial(id),
                                        out.result.value.blind_signature))
               ELSE notes

IssueNote ==
    \E id \in DepositIds, ra \in RandomBytes, rz \in RandomBytes, now \in Timestamps :
        IssueNoteCall(id, ra, rz, now) /\ UNCHANGED <<only_issued, raceVars>>

\* prepare_redemption of a note held, for any receiver.
PrepareNote ==
    \E id \in DOMAIN notes, k \in ReceiverKeys, rs \in RandomBytes :
        /\ PrepareCall([note |-> notes[id],
                        receiver_pubkey |-> PublicKey_from_bytes(k)], rs)
        /\ UNCHANGED <<holderVars, raceVars>>

\* finalize_redemption by any caller; the history keeps whether every call
\* named the nullifier of a note held.
FinalizeAny ==
    \E n \in Nullifiers \cup NoteNullifiers, denomination \in NoteDenominations :
        /\ FinalizeCall(n, denomination)
        /\ only_issued' = (only_issued /\ n \in NoteNullifiers)
        /\ UNCHANGED <<notes, raceVars>>

NextNotes ==
    \/ RequestBlindIssuance
    \/ IssueNote
    \/ PrepareNote
    \/ FinalizeAny
    \/ GetProofOfReserves

SpecNotes == Init /\ [][NextNotes]_vars

(* ---------- closed scenario: only the notes issued are redeemed -------- *)

\* finalize_redemption of a note held, with the note's own denomination.
FinalizeNote ==
    \E id \in DOMAIN notes :
        /\ FinalizeCall(nullifier(notes[id], reserve.mint_pubkey),
                        notes[id].denomination)
        /\ UNCHANGED <<holderVars, raceVars>>

NextClosed ==
    \/ RequestBlindIssuance
    \/ IssueNote
    \/ PrepareNote
    \/ FinalizeNote
    \/ GetProofOfReserves

SpecClosed == Init /\ [][NextClosed]_vars

(* ------------- holders that choose the serials of their notes --------- *)

\* Mutation of IssueNoteSerialCall: the tracker records the nullifier of
\* the note at issuance.
IssueNoteSerialCall_recording(id, serial, ra, rz, now) ==
    LET out  == issue_blind_signature(self, id, ra, rz, now)
        leak == [out EXCEPT !.self.tracker_state.spent_nullifiers =
                     IF out.result.kind = "Ok"
                     THEN @ \cup {Nullifier_compute(serial, reserve.mint_pubkey)}
                     ELSE @]
    IN  /\ Call("issue_blind_signature", [deposit_tx_id |-> id], leak,
                KindOf(out.result))
        /\ issue_successes' =
               IF out.result.kind = "Ok" THEN Bump(issue_successes, id)
                                         ELSE issue_successes
        /\ UNCHANGED <<initial_balance, finalize_successes, redeemed_value>>
        /\ notes' =
               IF out.result.kind = "Ok"
               THEN map_insert(notes, id,
                        PrivateNote_new(pending_issuances[id].denomination,
                                        serial,
                                        out.result.value.blind_signature))
               ELSE notes

\* issue_blind_signature, and on success the holder builds the note with a
\* serial of its own choice: the serial is no argument of the call.
IssueNoteSerialCall(id, serial, ra, rz, now) ==
    LET out == issue_blind_signature(self, id, ra, rz, now)
    IN  /\ IssueCall(id, ra, rz, now)
        /\ notes' =
               IF out.result.kind = "Ok"
               THEN map_insert(notes, id,
                        PrivateNote_new(pending_issuances[id].denomination,
                                        serial,
                                        out.result.value.blind_signature))
               ELSE notes

IssueNoteSerial ==
    \E id \in DepositIds, serial \in Serials,
       ra \in RandomBytes, rz \in RandomBytes, now \in Timestamps :
        IssueNoteSerialCall(id, serial, ra, rz, now)
            /\ UNCHANGED <<only_issued, raceVars>>

NextSerials ==
    \/ RequestBlindIssuance
    \/ IssueNoteSerial
    \/ FinalizeNote

SpecSerials == Init /\ [][NextSerials]_vars

(* ------------- one denomination, successful calls, notes held ---------- *)

\* Only the 1 ERG denomination is requested, only notes held are finalized
\* (each with its own denomination), and only the calls that succeed are
\* taken.

\* Reserves of one, two and ten notes' worth; with nothing issued each is
\* solvent.
UniformBalances == {DENOM_1_ERG, 2 * DENOM_1_ERG, DENOM_10_ERG}

InitUniform ==
    /\ \E balance \in UniformBalances, key \in ReserveMintKeys : Construct(balance, key)
    /\ notes = << >>
    /\ only_issued = TRUE
    /\ redeemers = << >>
    /\ race_log = << >>

UniformRequest ==
    \E id \in DepositIds, c \in BlindedCommitments :
        LET request == [denomination |-> DENOM_1_ERG, blinded_commitment |-> c,
                        deposit_tx_id |-> id]
        IN  /\ request_blind_issuance(self, request).result.kind = "Ok"
            /\ RequestCall(request)
            /\ UNCHANGED <<holderVars, raceVars>>

UniformIssue ==
    \E id \in DepositIds, ra \in RandomBytes, rz \in RandomBytes, now \in Timestamps :
        /\ issue_blind_signature(self, id, ra, rz, now).result.kind = "Ok"
        /\ IssueNoteCall(id, ra, rz, now)
        /\ UNCHANGED <<only_issued, raceVars>>

UniformPrepare ==
    \E id \in DOMAIN notes, r \in ReceiverKeys, rs \in RandomBytes :
        LET request == [note |-> notes[id], receiver_pubkey |-> PublicKey_from_bytes(r)]
        IN  /\ prepare_redemption(self, request, rs).result.kind = "Ok"
            /\ PrepareCall(request, rs)
            /\ UNCHANGED <<holderVars, raceVars>>

UniformFinalize ==
    \E id \in DOMAIN notes :
        LET n == nullifier(notes[id], reserve.mint_pubkey)
        IN  /\ finalize_redemption(self, n, notes[id].denomination).result.kind = "Ok"
            /\ FinalizeCall(n, notes[id].denomination)
            /\ UNCHANGED <<holderVars, raceVars>>

NextUniform ==
    \/ UniformRequest
    \/ UniformIssue
    \/ UniformPrepare
    \/ UniformFinalize
    \/ GetProofOfReserves

SpecUniform == InitUniform /\ [][NextUniform]_vars

(* ------------------- Nullifier::compute, by any caller ----------------- *)

\* The keys a nullifier is computed under: the reserve's and others.
NullifierKeys == ReserveMintKeys \cup ReceiverKeys

\* A caller computes the nullifier of a serial under a key; the history
\* keeps the call's inputs with its output.
ComputeNullifier ==
    \E serial \in Serials, k \in NullifierKeys :
        LET mint_pubkey == PublicKey_from_bytes(k)
            n == Nullifier_compute(serial, mint_pubkey)
        IN  /\ computed' = computed \cup
                   {[serial |-> serial, mint_pubkey |-> mint_pubkey, nullifier |-> n]}
            /\ last' = [op |-> "Nullifier_compute",
                        args |-> [serial |-> serial, mint_pubkey |-> mint_pubkey],
                        result |-> Ok(n)]
            /\ UNCHANGED <<trackerVars, historyVars, holderVars, raceVars>>

NextNullifier == ComputeNullifier

SpecNullifier == Init /\ [][NextNullifier]_vars

(* -------------- BlindSignature on the wire, by any caller -------------- *)

\* Byte vectors a caller can pass to BlindSignature::new (any Vec<u8>) and
\* to BlindSignature::from_bytes (any slice).
WireComponents ==
    {ByteVec(len, b) : len \in {0, 31, 32, 33, 34}, b \in {6, 7, 8}}

WireSignatures ==
    {BlindSignature_new(a, z) : a \in WireComponents, z \in WireComponents}

WireInputs ==
    {ByteVec(len, b) : len \in {0, 1, 64, 65, 66}, b \in {6, 7}}
        \cup {ByteConcat(ByteVec(33, 6), ByteVec(32, 7))}

\* to_bytes of a signature, and from_bytes of the bytes it gave.
SignatureToBytes ==
    \E sig \in WireSignatures :
        LET bytes == BlindSignature_to_bytes(sig)
        IN  /\ last' = [op |-> "BlindSignature_to_bytes", args |-> sig,
                        result |-> [bytes |-> bytes,
                                    parsed |-> BlindSignature_from_bytes(bytes)]]
            /\ UNCHANGED <<trackerVars, historyVars, holderVars, raceVars, computed>>

\* from_bytes of any bytes.
SignatureFromBytes ==
    \E bytes \in WireInputs :
        /\ last' = [op |-> "BlindSignature_from_bytes", args |-> bytes,
                    result |-> BlindSignature_from_bytes(bytes)]
        /\ UNCHANGED <<trackerVars, historyVars, holderVars, raceVars, computed>>

NextWire ==
    \/ SignatureToBytes
    \/ SignatureFromBytes

SpecWire == Init /\ [][NextWire]_vars

(* ---------------- depositors' issuance calls, logged ------------------ *)

\* request_blind_issuance by any depositor, any number of times for one
\* deposit; the log keeps the request and the result's kind.
LoggedRequest ==
    \E request \in IssuanceRequests :
        /\ Len(race_log) < MaxCalls
        /\ RequestCall(request)
        /\ race_log' = Append(race_log,
               [op |-> "request_blind_issuance", request |-> request,
                deposit_tx_id |-> request.deposit_tx_id,
                kind |-> request_blind_issuance(self, request).result.kind])
        /\ UNCHANGED <<holderVars, redeemers>>

\* issue_blind_signature for any deposit id; the log keeps the id and the
\* result's kind.
LoggedIssue ==
    \E id \in DepositIds, ra \in RandomBytes, rz \in RandomBytes, now \in Timestamps :
        /\ Len(race_log) < MaxCalls
        /\ IssueCall(id, ra, rz, now)
        /\ race_log' = Append(race_log,
               [op |-> "issue_blind_signature", request |-> << >>,
                deposit_tx_id |-> id,
                kind |-> issue_blind_signature(self, id, ra, rz, now).result.kind])
        /\ UNCHANGED <<holderVars, redeemers>>

NextLogged ==
    \/ LoggedRequest
    \/ LoggedIssue

SpecLogged == Init /\ [][NextLogged]_vars

(* ------------------ two redeemers racing for one note ------------------ *)

\* The deposit whose note both redeemers hold a copy of.
RacedDeposit == 1

\* A redeemer is named by the receiver key it redeems to.
Redeemers == ReceiverKeys

InitRace ==
    /\ \E balance \in InitialBalances, key \in ReserveMintKeys : Construct(balance, key)
    /\ notes = << >>
    /\ only_issued = TRUE
    /\ redeemers = [r \in Redeemers |-> [pc |-> "start", tx |-> << >>]]
    /\ race_log = << >>

\* The note is withdrawn: request_blind_issuance, then issue_blind_signature.
RaceRequest ==
    \E request \in IssuanceRequests :
        /\ request.deposit_tx_id = RacedDeposit
        /\ RequestCall(request)
        /\ UNCHANGED <<holderVars, raceVars>>

RaceIssue ==
    \E ra \in RandomBytes, rz \in RandomBytes, now \in Timestamps :
        /\ IssueNoteCall(RacedDeposit, ra, rz, now)
        /\ UNCHANGED <<only_issued, raceVars>>

\* A redeemer holding the note calls prepare_redemption; with the
\* transaction data it goes on to settlement, without it it gives up.
RacePrepare(r) ==
    \E rs \in RandomBytes :
        LET request == [note |-> notes[RacedDeposit],
                        receiver_pubkey |-> PublicKey_from_bytes(r)]
            out == prepare_redemption(self, request, rs)
        IN  /\ RacedDeposit \in DOMAIN notes
            /\ redeemers[r].pc = "start"
            /\ PrepareCall(request, rs)
            /\ redeemers' = [redeemers EXCEPT ![r] =
                   IF out.result.kind = "Ok"
                   THEN [pc |-> "prepared", tx |-> out.result.value]
                   ELSE [pc |-> "failed", tx |-> << >>]]
            /\ race_log' = Append(race_log,
                   [redeemer |-> r, op |-> "prepare_redemption",
                    kind |-> out.result.kind])
            /\ UNCHANGED holderVars

\* After settlement the redeemer's transaction is finalized with the
\* nullifier and denomination of its transaction data.
RaceFinalize(r) ==
    LET tx  == redeemers[r].tx
        out == finalize_redemption(self, tx.nullifier, tx.denomination)
    IN  /\ redeemers[r].pc = "prepared"
        /\ FinalizeCall(tx.nullifier, tx.denomination)
        /\ redeemers' = [redeemers EXCEPT ![r].pc = "done"]
        /\ race_log' = Append(race_log,
               [redeemer |-> r, op |-> "finalize_redemption",
                kind |-> out.result.kind])
        /\ UNCHANGED holderVars

NextRace ==
    \/ RaceRequest
    \/ RaceIssue
    \/ \E r \in Redeemers : RacePrepare(r)
    \/ \E r \in Redeemers : RaceFinalize(r)

SpecRace == InitRace /\ [][NextRace]_vars

(* ------------------------------- claims ------------------------------- *)

\* Denominations a finalize_redemption call is probed with: any u64.
ProbeDenominations == NoteDenominations \cup {0, 2 * DENOM_100_ERG}

\* The tracker's persisted state, as the claims compare it.
Balance == reserve.erg_balance

Spent == tracker_state.spent_nullifiers

\* C1: no double issuance per deposit.  issue_blind_signature succeeds at
\* most once for a deposit id; once it has succeeded for an id, every
\* further issue_blind_signature on that id fails with NoteNotFound, and
\* every request_blind_issuance for that id fails and leaves the id without
\* a pending issuance.
C1_NoDoubleIssuance ==
    \A id \in DepositIds :
        /\ issue_successes[id] <= 1
        /\ issue_successes[id] >= 1 =>
            /\ \A ra \in RandomBytes, rz \in RandomBytes, now \in Timestamps :
                   issue_blind_signature(self, id, ra, rz, now).result.kind
                       = "NoteNotFound"
            /\ \A request \in IssuanceRequests :
                   request.deposit_tx_id = id =>
                       LET out == request_blind_issuance(self, request)
                       IN  /\ out.result.kind # "Ok"
                           /\ id \notin DOMAIN out.self.pending_issuances
        /\ (/\ last.op = "issue_blind_signature"
            /\ last.args.deposit_tx_id = id
            /\ last.result.kind # "Ok")
           => last.result.kind = "NoteNotFound"

\* C1 witness: a second issue_blind_signature on an issued id was rejected
\* with NoteNotFound.
C1_Witness ==
    /\ last.op = "issue_blind_signature"
    /\ last.result.kind = "NoteNotFound"
    /\ issue_successes[last.args.deposit_tx_id] = 1

\* C2: no double redemption per nullifier.  finalize_redemption succeeds at
\* most once for a nullifier; once it has succeeded, every further
\* finalize_redemption with that nullifier, for any denomination, fails and
\* leaves the reserve balance, the spent set and redeemed_notes_count
\* unchanged.
C2_NoDoubleRedemption ==
    \A n \in Nullifiers :
        /\ finalize_successes[n] <= 1
        /\ finalize_successes[n] >= 1 =>
               \A denomination \in ProbeDenominations :
                   LET out == finalize_redemption(self, n, denomination)
                   IN  /\ out.result.kind # "Ok"
                       /\ out.self.reserve.erg_balance = Balance
                       /\ out.self.tracker_state.spent_nullifiers = Spent
                       /\ out.self.tracker_state.redeemed_notes_count
                              = tracker_state.redeemed_notes_count

\* C2 witness: a finalize_redemption of an already redeemed nullifier was
\* rejected.
C2_Witness ==
    /\ last.op = "finalize_redemption"
    /\ last.result.kind # "Ok"
    /\ finalize_successes[last.args.nullifier] = 1

\* C3 (as claimed): a finalize_redemption that fails with
\* InsufficientReserve leaves the whole tracker state as it was: the
\* nullifier is not spent afterwards and redeemed_notes_count is unchanged.
C3_FinalizeAtomic ==
    [][(/\ last'.op = "finalize_redemption"
        /\ last'.result.kind = "InsufficientReserve")
       => /\ UNCHANGED trackerVars
          /\ last'.args.nullifier \notin tracker_state'.spent_nullifiers]_vars

\* C4 (as claimed): finalize_redemption with a nullifier already in the
\* spent set fails with the error kind DoubleSpend.
C4_FinalizeSpentIsDoubleSpend ==
    [][(/\ last'.op = "finalize_redemption"
        /\ last'.args.nullifier \in tracker_state.spent_nullifiers)
       => last'.result.kind = "DoubleSpend"]_vars

\* C5 (as claimed): with only the 1 ERG denomination requested, from a
\* reserve that starts solvent, after any sequence of successful
\* request_blind_issuance / issue_blind_signature pairs and successful
\* finalize_redemption calls of the notes issued, the proof of reserves is
\* produced and reports is_solvent (reserve balance >= outstanding value).
C5_SolventUniform ==
    \A overflow_checks \in BOOLEAN :
        LET report == get_proof_of_reserves(self, overflow_checks).result
        IN  /\ report.kind = "Ok"
            /\ report.value.is_solvent

\* C6 (as claimed): in every state reached through the public operations,
\* issued_notes_count >= redeemed_notes_count.
C6_IssuedAtLeastRedeemed ==
    tracker_state.issued_notes_count >= tracker_state.redeemed_notes_count

\* C6 (amended): as long as finalize_redemption has only been called with
\* nullifiers of notes that were issued, issued_notes_count >=
\* redeemed_notes_count.
C6_IssuedAtLeastRedeemedOfIssued ==
    only_issued => tracker_state.issued_notes_count >= tracker_state.redeemed_notes_count

\* C6 witness: every issued note has been redeemed, and nothing else has.
C6_Witness ==
    /\ only_issued
    /\ last.op = "finalize_redemption"
    /\ tracker_state.redeemed_notes_count = 2
    /\ tracker_state.issued_notes_count = 2

\* C7: the spent-nullifier set only grows: every step leaves every spent
\* nullifier in the set.
C7_SpentOnlyGrows ==
    [][tracker_state.spent_nullifiers \subseteq tracker_state'.spent_nullifiers]_vars

\* C7 witness: two nullifiers are spent, the second added to the first.
C7_Witness ==
    /\ last.op = "finalize_redemption"
    /\ last.args.nullifier \in Spent
    /\ Cardinality(Spent) >= 2

C9_PrepareReadOnly ==
    [][last'.op = "prepare_redemption" => UNCHANGED trackerVars]_vars

\* C9 witness: a prepare_redemption succeeded on a tracker with an unspent
\* history (a spent nullifier and an issued note exist).
C9_Witness ==
    /\ last.op = "prepare_redemption"
    /\ last.result.kind = "Ok"
    /\ Spent # {}
    /\ tracker_state.issued_notes_count > 0

\* C10: once finalize_redemption has succeeded for a nullifier, every
\* prepare_redemption of a note with a well-formed signature whose nullifier
\* under the reserve's mint key is that nullifier (the same serial), for any
\* receiver key, fails with DoubleSpend.
C10_PrepareAfterFinalize ==
    \A request \in RedemptionRequests, rs \in RandomBytes :
        (/\ verify_signature(request.note, reserve.mint_pubkey)
         /\ finalize_successes[nullifier(request.note, reserve.mint_pubkey)] >= 1)
        => prepare_redemption(self, request, rs).result.kind = "DoubleSpend"

\* C10 witness: a prepare_redemption was rejected with DoubleSpend when
\* every spent nullifier had been spent by a successful finalize_redemption.
C10_Witness ==
    /\ last.op = "prepare_redemption"
    /\ last.result.kind = "DoubleSpend"
    /\ Spent # {}
    /\ \A n \in Spent : finalize_successes[n] = 1

\* Denominations a request is probed with: the catalog, zero, and
\* neighbours of catalog values.
CatalogProbes == allowed_denominations \cup {0, 7, 9, 11, 999, 1001}

\* C11: request_blind_issuance fails with InvalidDenomination exactly when
\* the requested denomination is none of the four catalog values (0.1, 1,
\* 10, 100 ERG: 1, 10, 100, 1000 in the model's unit), whatever the deposit
\* id; the failing call leaves the whole tracker as it was, and the
\* rejected request is not pending afterwards.
C11_InvalidDenominationExactly ==
    /\ \A d \in CatalogProbes, c \in BlindedCommitments, id \in DepositIds :
           LET request == [denomination |-> d, blinded_commitment |-> c,
                           deposit_tx_id |-> id]
               out == request_blind_issuance(self, request)
           IN  /\ out.result.kind = "InvalidDenomination" <=> d \notin {1, 10, 100, 1000}
               /\ out.result.kind = "InvalidDenomination" => out.self = self
    /\ (/\ last.op = "request_blind_issuance"
        /\ last.result.kind = "InvalidDenomination")
       => /\ last.args.denomination \notin {1, 10, 100, 1000}
          /\ \A id \in DOMAIN pending_issuances : pending_issuances[id] # last.args

\* C11 witness: a request with a denomination outside the catalog was
\* rejected by a tracker that has a pending issuance and a processed
\* deposit.
C11_Witness ==
    /\ last.op = "request_blind_issuance"
    /\ last.result.kind = "InvalidDenomination"
    /\ DOMAIN pending_issuances # {}
    /\ processed_deposits # {}

\* C12: request_blind_issuance with a catalog denomination and a deposit
\* id in the processed-deposits set fails with the error kind
\* InternalError, and leaves the pending issuances, the processed deposits
\* and the counters (the whole tracker) unchanged.
C12_ProcessedDepositRejected ==
    /\ \A d \in allowed_denominations, c \in BlindedCommitments,
          id \in processed_deposits :
           LET request == [denomination |-> d, blinded_commitment |-> c,
                           deposit_tx_id |-> id]
               out == request_blind_issuance(self, request)
           IN  /\ out.result.kind = "InternalError"
               /\ out.self.pending_issuances = pending_issuances
               /\ out.self.processed_deposits = processed_deposits
               /\ out.self.tracker_state = tracker_state
               /\ out.self.reserve = reserve
    /\ (/\ last.op = "request_blind_issuance"
        /\ last.args.denomination \in allowed_denominations
        /\ last.args.deposit_tx_id \in processed_deposits)
       => /\ last.result.kind = "InternalError"
          /\ last.args.deposit_tx_id \notin DOMAIN pending_issuances

\* C12 witness: a request with a catalog denomination for a processed
\* deposit was rejected while another issuance was pending.
C12_Witness ==
    /\ last.op = "request_blind_issuance"
    /\ last.args.denomination \in allowed_denominations
    /\ last.args.deposit_tx_id \in processed_deposits
    /\ last.result.kind = "InternalError"
    /\ DOMAIN pending_issuances # {}

\* C13: in every reachable state, for every valid request (catalog
\* denomination, deposit id not processed), request_blind_issuance followed
\* immediately by issue_blind_signature on the same deposit id both
\* succeed; together they increase issued_notes_count by exactly 1 and
\* leave the reserve balance, the spent set and redeemed_notes_count
\* unchanged.
C13_RequestThenIssue ==
    \A d \in allowed_denominations, c \in BlindedCommitments,
       id \in DepositIds \ processed_deposits,
       ra \in RandomBytes, rz \in RandomBytes, now \in Timestamps :
        LET request   == [denomination |-> d, blinded_commitment |-> c,
                          deposit_tx_id |-> id]
            requested == request_blind_issuance(self, request)
            issued    == issue_blind_signature(requested.self, id, ra, rz, now)
        IN  /\ requested.result.kind = "Ok"
            /\ issued.result.kind = "Ok"
            /\ issued.self.tracker_state.issued_notes_count
                   = tracker_state.issued_notes_count + 1
            /\ issued.self.reserve.erg_balance = Balance
            /\ issued.self.tracker_state.spent_nullifiers = Spent
            /\ issued.self.tracker_state.redeemed_notes_count
                   = tracker_state.redeemed_notes_count

\* C13 witness: an issue_blind_signature succeeded on a requested deposit
\* in a tracker that had already issued and redeemed, with a deposit left
\* to request.
C13_Witness ==
    /\ last.op = "issue_blind_signature"
    /\ last.result.kind = "Ok"
    /\ tracker_state.issued_notes_count = 1
    /\ tracker_state.redeemed_notes_count >= 1
    /\ DepositIds \ processed_deposits # {}

\* C14: a successful finalize_redemption(nullifier, denomination) adds
\* exactly that nullifier to the spent set, increments
\* redeemed_notes_count by exactly 1, decreases the reserve balance by
\* exactly denomination, and changes nothing else: the issued count, the
\* pending issuances, the processed deposits and the other fields of the
\* reserve and of the tracker state stay as they were.
C14_FinalizeEffect ==
    [][(/\ last'.op = "finalize_redemption"
        /\ last'.result.kind = "Ok")
       => /\ last'.args.nullifier \notin tracker_state.spent_nullifiers
          /\ tracker_state'.spent_nullifiers
                 = tracker_state.spent_nullifiers \cup {last'.args.nullifier}
          /\ tracker_state'.redeemed_notes_count
                 = tracker_state.redeemed_notes_count + 1
          /\ reserve'.erg_balance = reserve.erg_balance - last'.args.denomination
          /\ reserve'.erg_balance >= 0
          /\ tracker_state' =
                 [tracker_state EXCEPT
                     !.spent_nullifiers = tracker_state'.spent_nullifiers,
                     !.redeemed_notes_count = tracker_state'.redeemed_notes_count]
          /\ reserve' = [reserve EXCEPT !.erg_balance = reserve'.erg_balance]
          /\ UNCHANGED <<pending_issuances, processed_deposits>>]_vars

\* C14 witness: a finalize_redemption succeeded in a tracker with an
\* issued note, a pending issuance and another nullifier already spent.
C14_Witness ==
    /\ last.op = "finalize_redemption"
    /\ last.result.kind = "Ok"
    /\ Spent \ {last.args.nullifier} # {}
    /\ tracker_state.issued_notes_count >= 1
    /\ DOMAIN pending_issuances # {}

\* C15 (as claimed): in every reachable state the report that
\* get_proof_of_reserves produces carries the current reserve balance,
\* issued count and redeemed count, outstanding_value = (issued_notes_count
\* - redeemed_notes_count) * 1 ERG, and is_solvent = (reserve balance >=
\* outstanding_value), equality counting as solvent.
C15_ProofOfReservesReport ==
    \A overflow_checks \in BOOLEAN :
        LET result == get_proof_of_reserves(self, overflow_checks).result
        IN  result.kind = "Ok" =>
                /\ result.value.reserve_erg_balance = Balance
                /\ result.value.issued_notes_count = tracker_state.issued_notes_count
                /\ result.value.redeemed_notes_count = tracker_state.redeemed_notes_count
                /\ result.value.outstanding_value =
                       (tracker_state.issued_notes_count
                            - tracker_state.redeemed_notes_count) * 10
                /\ result.value.is_solvent = (Balance >= result.value.outstanding_value)

\* C16 (as claimed): no call of a tracker operation faults: each returns a
\* value, Ok or a TrackerError; get_proof_of_reserves in particular never
\* panics on issued_notes_count - redeemed_notes_count or on the product.
C16_NoFault ==
    last.result.kind # "Panic"

\* C17: the reserve balance is changed only by a successful
\* finalize_redemption: every other call (request_blind_issuance,
\* issue_blind_signature, prepare_redemption, is_nullifier_spent,
\* get_proof_of_reserves) and every failed finalize_redemption leaves it
\* unchanged.  In every reachable state the balance is the initial balance
\* less the denominations of the successful finalize_redemption calls; it
\* never increases and never goes below zero.
C17_BalanceOnlyByFinalize ==
    /\ [](/\ Balance = initial_balance - redeemed_value
          /\ Balance >= 0)
    /\ [][/\ (last'.op # "finalize_redemption" \/ last'.result.kind # "Ok")
               => reserve'.erg_balance = reserve.erg_balance
          /\ reserve'.erg_balance <= reserve.erg_balance]_vars

\* C17 witness: after a redemption has drawn on the reserve, a
\* finalize_redemption failed for lack of reserve.
C17_Witness ==
    /\ last.op = "finalize_redemption"
    /\ last.result.kind = "InsufficientReserve"
    /\ redeemed_value > 0
    /\ tracker_state.issued_notes_count >= 1

\* The issued notes whose nullifier is not in the spent set.
UnspentNotes ==
    {id \in DOMAIN notes : nullifier(notes[id], reserve.mint_pubkey) \notin Spent}

\* C18: conservation in closed scenarios.  When the issued notes have
\* pairwise distinct serials and finalize_redemption has only been called
\* with nullifiers of issued notes, issued_notes_count -
\* redeemed_notes_count is the number of issued notes whose nullifier is
\* not in the spent set.
C18_Conservation ==
    (/\ only_issued
     /\ \A i \in DOMAIN notes, j \in DOMAIN notes :
            i # j => notes[i].serial # notes[j].serial)
    => tracker_state.issued_notes_count - tracker_state.redeemed_notes_count
           = Cardinality(UnspentNotes)

\* C18 witness: of two issued notes one has been redeemed and one is
\* unspent.
C18_Witness ==
    /\ only_issued
    /\ last.op = "finalize_redemption"
    /\ Cardinality(DOMAIN notes) = 2
    /\ Cardinality(UnspentNotes) = 1
    /\ tracker_state.redeemed_notes_count = 1

\* The denominations of the notes ids, summed.
RECURSIVE SumDenominations(_)
SumDenominations(ids) ==
    IF ids = {} THEN 0
    ELSE LET id == CHOOSE x \in ids : TRUE
         IN  notes[id].denomination + SumDenominations(ids \ {id})

\* C19 (as claimed): in closed scenarios (notes of any catalog
\* denomination issued, only issued notes finalized, each with its own
\* denomination) the proof of reserves reports is_solvent exactly when the
\* reserve balance >= the sum of the denominations of the issued notes not
\* yet redeemed.
C19_SolventIsBacked ==
    \A overflow_checks \in BOOLEAN :
        LET result == get_proof_of_reserves(self, overflow_checks).result
        IN  /\ result.kind = "Ok"
            /\ result.value.is_solvent <=> Balance >= SumDenominations(UnspentNotes)

\* C20: Nullifier::compute is a deterministic function of (serial, mint
\* public key): calls with identical inputs give the identical nullifier,
\* calls whose inputs differ in the serial or in the mint key give
\* different nullifiers, so distinct serials under one mint key have
\* distinct nullifiers.
C20_NullifierDeterministicInjective ==
    \A c1 \in computed, c2 \in computed :
        /\ (c1.serial = c2.serial /\ c1.mint_pubkey = c2.mint_pubkey)
               => c1.nullifier = c2.nullifier
        /\ (c1.serial # c2.serial \/ c1.mint_pubkey # c2.mint_pubkey)
               => c1.nullifier # c2.nullifier
        /\ (c1.mint_pubkey = c2.mint_pubkey /\ c1.serial # c2.serial)
               => c1.nullifier # c2.nullifier
        /\ c1.nullifier = Nullifier_compute(c1.serial, c1.mint_pubkey)

\* C20 witness: nullifiers were computed for two serials under one key and
\* for one serial under two keys, and a call was repeated.
C20_Witness ==
    /\ \E c1 \in computed, c2 \in computed :
           c1.serial # c2.serial /\ c1.mint_pubkey = c2.mint_pubkey
    /\ \E c1 \in computed, c2 \in computed :
           c1.serial = c2.serial /\ c1.mint_pubkey # c2.mint_pubkey
    /\ last.op = "Nullifier_compute"
    /\ Cardinality(computed) = Cardinality(Serials) * Cardinality(NullifierKeys)

C22_WireRoundTrip ==
    /\ last.op = "BlindSignature_to_bytes" =>
           /\ ByteLen(last.result.bytes) = 65
           /\ last.result.parsed.kind = "Ok"
           /\ last.result.parsed.value.a = last.args.a
           /\ last.result.parsed.value.z = last.args.z
    /\ (last.op = "BlindSignature_from_bytes" /\ ByteLen(last.args) # 65)
           => last.result.kind = "Err"

\* C23: a successful request_blind_issuance stores its request as the
\* pending entry of its own deposit id and changes nothing else: the issued
\* and redeemed counts, the spent set, the processed set, the reserve and
\* every other pending entry stay as they were.
C23_RequestFrame ==
    [][(last'.op = "request_blind_issuance" /\ last'.result.kind = "Ok") =>
           LET id == last'.args.deposit_tx_id
           IN  /\ tracker_state' = tracker_state
               /\ processed_deposits' = processed_deposits
               /\ reserve' = reserve
               /\ DOMAIN pending_issuances' = DOMAIN pending_issuances \cup {id}
               /\ pending_issuances'[id] = last'.args
               /\ \A d \in DOMAIN pending_issuances \ {id} :
                      pending_issuances'[d] = pending_issuances[d]]_vars

\* C23 witness: a request has just succeeded while another deposit was
\* processed, its note redeemed, and nothing else is pending.
C23_Witness ==
    /\ last.op = "request_blind_issuance"
    /\ last.result.kind = "Ok"
    /\ DOMAIN pending_issuances = {last.args.deposit_tx_id}
    /\ processed_deposits # {}
    /\ tracker_state.issued_notes_count = 1
    /\ tracker_state.redeemed_notes_count = 1
    /\ Spent # {}

\* C24: when successful requests for one deposit id are repeated before the
\* id is signed, the pending map holds the latest of them as the id's one
\* entry; the first issue_blind_signature that follows consumes it and
\* succeeds, no later one for the id succeeds, so the id yields exactly one
\* issuance and issued_notes_count rises by exactly 1 for it.
C24_RepeatedRequestOneIssuance ==
    LET calls(op, d) ==
            {i \in 1..Len(race_log) :
                /\ race_log[i].op = op
                /\ race_log[i].deposit_tx_id = d}
        oks(op, d) == {i \in calls(op, d) : race_log[i].kind = "Ok"}
        latest(S) == CHOOSE i \in S : \A j \in S : j <= i
        earliest(S) == CHOOSE i \in S : \A j \in S : i <= j
    IN  /\ \A d \in DepositIds :
               LET requests == oks("request_blind_issuance", d)
                   issues   == oks("issue_blind_signature", d)
                   tried    == {k \in calls("issue_blind_signature", d) :
                                    \E i \in requests : i < k}
               IN  /\ Cardinality(issues) <= 1
                   /\ (requests # {} /\ issues = {}) =>
                          /\ d \in DOMAIN pending_issuances
                          /\ pending_issuances[d] = race_log[latest(requests)].request
                          /\ d \notin processed_deposits
                   /\ tried # {} => issues = {earliest(tried)}
                   /\ issues # {} =>
                          /\ \A i \in requests : i < earliest(issues)
                          /\ d \notin DOMAIN pending_issuances
                          /\ d \in processed_deposits
        /\ tracker_state.issued_notes_count =
               Cardinality({d \in DepositIds : oks("issue_blind_signature", d) # {}})

\* C24 witness: two successful requests for deposit 1 with different
\* denominations, then a successful issue for it, then a failed one.
C24_Witness ==
    /\ Len(race_log) = 4
    /\ \A i \in 1..4 : race_log[i].deposit_tx_id = 1
    /\ race_log[1].op = "request_blind_issuance" /\ race_log[1].kind = "Ok"
    /\ race_log[2].op = "request_blind_issuance" /\ race_log[2].kind = "Ok"
    /\ race_log[1].request # race_log[2].request
    /\ race_log[3].op = "issue_blind_signature" /\ race_log[3].kind = "Ok"
    /\ race_log[4].op = "issue_blind_signature" /\ race_log[4].kind # "Ok"
    /\ tracker_state.issued_notes_count = 1

\* C25: a successful issue_blind_signature(id) removes the pending entry of
\* id and no other, adds id to the processed set, and leaves the spent set,
\* the redeemed count and the reserve as they were; a pending entry
\* disappears only in a successful issue_blind_signature for its id, which
\* succeeds at most once per id.
C25_IssueFrame ==
    /\ [][(last'.op = "issue_blind_signature" /\ last'.result.kind = "Ok") =>
              LET id == last'.args.deposit_tx_id
              IN  /\ id \in DOMAIN pending_issuances
                  /\ DOMAIN pending_issuances' = DOMAIN pending_issuances \ {id}
                  /\ \A d \in DOMAIN pending_issuances' :
                         pending_issuances'[d] = pending_issuances[d]
                  /\ processed_deposits' = processed_deposits \cup {id}
                  /\ tracker_state'.spent_nullifiers = tracker_state.spent_nullifiers
                  /\ tracker_state'.redeemed_notes_count
                         = tracker_state.redeemed_notes_count
                  /\ reserve' = reserve]_vars
    /\ [][\A d \in DOMAIN pending_issuances :
              d \notin DOMAIN pending_issuances' =>
                  /\ last'.op = "issue_blind_signature"
                  /\ last'.result.kind = "Ok"
                  /\ last'.args.deposit_tx_id = d
                  /\ issue_successes[d] = 0
                  /\ issue_successes'[d] = 1]_vars

\* C25 witness: an issue has just succeeded while another deposit is
\* pending and a nullifier is spent.
C25_Witness ==
    /\ last.op = "issue_blind_signature"
    /\ last.result.kind = "Ok"
    /\ DOMAIN pending_issuances # {}
    /\ Spent # {}
    /\ tracker_state.redeemed_notes_count = 1

\* C26: issue_blind_signature(id) succeeds exactly when a successful
\* request for id came before it and no issue for id succeeded yet;
\* otherwise it fails with NoteNotFound, and a failing call leaves the
\* tracker's state as it was.
C26_IssueNeedsPending ==
    /\ [](\A k \in 1..Len(race_log) :
              race_log[k].op = "issue_blind_signature" =>
                  LET d == race_log[k].deposit_tx_id
                      before(op) ==
                          {i \in 1..(k - 1) :
                              /\ race_log[i].op = op
                              /\ race_log[i].deposit_tx_id = d
                              /\ race_log[i].kind = "Ok"}
                  IN  IF /\ before("request_blind_issuance") # {}
                         /\ before("issue_blind_signature") = {}
                      THEN race_log[k].kind = "Ok"
                      ELSE race_log[k].kind = "NoteNotFound")
    /\ [][(last'.op = "issue_blind_signature" /\ last'.result.kind # "Ok") =>
              /\ last'.args.deposit_tx_id \notin DOMAIN pending_issuances
              /\ last'.result.kind = "NoteNotFound"
              /\ UNCHANGED trackerVars]_vars

\* C26 witness: an issue for a deposit never requested fails while another
\* deposit is pending; that one is then signed, and a second issue for it
\* fails.
C26_Witness ==
    /\ Len(race_log) = 4
    /\ race_log[1].op = "request_blind_issuance" /\ race_log[1].kind = "Ok"
    /\ race_log[1].deposit_tx_id = 1
    /\ race_log[2].op = "issue_blind_signature" /\ race_log[2].kind = "NoteNotFound"
    /\ race_log[2].deposit_tx_id = 2
    /\ race_log[3].op = "issue_blind_signature" /\ race_log[3].kind = "Ok"
    /\ race_log[3].deposit_tx_id = 1
    /\ race_log[4].op = "issue_blind_signature" /\ race_log[4].kind = "NoteNotFound"
    /\ race_log[4].deposit_tx_id = 1
    /\ last.result.kind = "NoteNotFound"

\* C27: prepare_redemption checks the signature, then the double spend,
\* then the reserve.  A note whose signature has an empty component fails
\* with InvalidSignature whether or not its nullifier is spent or the
\* reserve too small; a note with a well-formed signature and a spent
\* nullifier fails with DoubleSpend whether or not the reserve covers it.
C27_PrepareCheckOrder ==
    \A request \in RedemptionRequests, rs \in RandomBytes :
        LET note   == request.note
            result == prepare_redemption(self, request, rs).result
        IN  /\ (note.blind_signature.a = << >> \/ note.blind_signature.z = << >>)
                   => result.kind = "InvalidSignature"
            /\ (/\ note.blind_signature.a # << >>
                /\ note.blind_signature.z # << >>
                /\ nullifier(note, reserve.mint_pubkey) \in Spent)
                   => result.kind = "DoubleSpend"

\* C27 witness: prepare_redemption has just failed with InvalidSignature
\* while every nullifier is spent and the reserve is empty, so that all
\* three checks fail for the call's note.
C27_Witness ==
    /\ last.op = "prepare_redemption"
    /\ last.result.kind = "InvalidSignature"
    /\ Spent = Nullifiers
    /\ Balance = 0

\* C28: for a note with a well-formed signature and an unspent nullifier,
\* prepare_redemption fails with InsufficientReserve exactly when the
\* reserve balance is strictly below the denomination; otherwise, equality
\* included, it succeeds and its transaction data carry the note's own
\* nullifier, denomination and serial and the request's receiver key.
C28_PrepareReserveCheck ==
    \A request \in RedemptionRequests, rs \in RandomBytes :
        LET note   == request.note
            n      == nullifier(note, reserve.mint_pubkey)
            result == prepare_redemption(self, request, rs).result
        IN  (/\ note.blind_signature.a # << >>
             /\ note.blind_signature.z # << >>
             /\ n \notin Spent) =>
                IF Balance < note.denomination
                THEN result.kind = "InsufficientReserve"
                ELSE /\ result.kind = "Ok"
                     /\ result.value.nullifier = n
                     /\ result.value.denomination = note.denomination
                     /\ result.value.serial = note.serial
                     /\ result.value.receiver_pubkey = request.receiver_pubkey

\* C28 witness: prepare_redemption has just succeeded with a reserve of
\* exactly 1 ERG, the smallest denomination of a note: the reserve equals
\* the denomination, and a 100 ERG note with an unspent nullifier is
\* refused in the same state.
C28_Witness ==
    /\ last.op = "prepare_redemption"
    /\ last.result.kind = "Ok"
    /\ Balance = DENOM_1_ERG
    /\ Spent # Nullifiers

\* C29: is_nullifier_spent and get_proof_of_reserves are pure reads.  A
\* call of either leaves the reserve, the tracker state, the pending map
\* and the processed set as they were; is_nullifier_spent(n) returns true
\* exactly when n is in the spent set, and a second call for the same
\* nullifier right after the first returns the same result.
C29_QueriesArePure ==
    /\ [][last'.op \in {"is_nullifier_spent", "get_proof_of_reserves"}
              => UNCHANGED trackerVars]_vars
    /\ [](last.op = "is_nullifier_spent"
              => last.result = Ok(last.args.nullifier \in Spent))
    /\ [][(/\ last.op = "is_nullifier_spent"
            /\ last'.op = "is_nullifier_spent"
            /\ last'.args = last.args)
              => last'.result = last.result]_vars

\* C29 witness: is_nullifier_spent has just returned true while a request
\* is pending and a deposit processed.
C29_Witness ==
    /\ last.op = "is_nullifier_spent"
    /\ last.result = Ok(TRUE)
    /\ last.args.nullifier \in Spent
    /\ DOMAIN pending_issuances # {}
    /\ processed_deposits # {}

\* C30: no deposit id is both pending and processed: the keys of the
\* pending map and the processed set are disjoint in every reachable state.
C30_PendingProcessedDisjoint ==
    DOMAIN pending_issuances \cap processed_deposits = {}

\* C30 witness: one deposit is pending while another is processed, after a
\* request for the processed one was refused.
C30_Witness ==
    /\ DOMAIN pending_issuances # {}
    /\ processed_deposits # {}
    /\ last.op = "request_blind_issuance"
    /\ last.result.kind = "InternalError"

\* C31: issued_notes_count equals the number of deposit ids in the
\* processed set, in every state the public operations reach.
C31_IssuedCountIsProcessed ==
    tracker_state.issued_notes_count = Cardinality(processed_deposits)

\* C31 witness: every deposit id is processed, and a request for a
\* processed one has just been refused.
C31_Witness ==
    /\ processed_deposits = DepositIds
    /\ tracker_state.issued_notes_count = MaxDeposit
    /\ last.op = "request_blind_issuance"
    /\ last.result.kind = "InternalError"

\* C32: redeemed_notes_count equals the number of nullifiers in the spent
\* set in every reachable state, the states after a finalize_redemption
\* that failed with InsufficientReserve included.
C32_RedeemedCountIsSpent ==
    tracker_state.redeemed_notes_count = Cardinality(Spent)

\* C32 witness: finalize_redemption has just failed with
\* InsufficientReserve, leaving its nullifier spent beside one whose
\* finalize_redemption succeeded.
C32_Witness ==
    /\ last.op = "finalize_redemption"
    /\ last.result.kind = "InsufficientReserve"
    /\ last.args.nullifier \in Spent
    /\ finalize_successes[last.args.nullifier] = 0
    /\ Cardinality(Spent) = 2
    /\ tracker_state.redeemed_notes_count = 2

\* C33: notes that share a serial share the nullifier, whatever their
\* denominations and signatures.  Once finalize_redemption has succeeded
\* for the nullifier of a serial, prepare_redemption is rejected for every
\* note of that serial and finalize_redemption for that nullifier with any
\* denomination.
C33_SharedSerialOneRedemption ==
    /\ \A r1 \in RedemptionRequests, r2 \in RedemptionRequests :
           r1.note.serial = r2.note.serial =>
               nullifier(r1.note, reserve.mint_pubkey)
                   = nullifier(r2.note, reserve.mint_pubkey)
    /\ \A serial \in Serials :
           LET n == Nullifier_compute(serial, reserve.mint_pubkey)
           IN  finalize_successes[n] >= 1 =>
                   /\ \A request \in RedemptionRequests, rs \in RandomBytes :
                          request.note.serial = serial =>
                              prepare_redemption(self, request, rs).result.kind # "Ok"
                   /\ \A denomination \in NoteDenominations :
                          finalize_redemption(self, n, denomination).result.kind # "Ok"

\* C33 witness: a 1 ERG note of some serial was redeemed, and
\* finalize_redemption for the same nullifier with 100 ERG, which the
\* reserve still covers, has just been rejected.
C33_Witness ==
    /\ last.op = "finalize_redemption"
    /\ last.result.kind = "InternalError"
    /\ last.args.denomination = DENOM_100_ERG
    /\ finalize_successes[last.args.nullifier] = 1
    /\ redeemed_value = DENOM_1_ERG
    /\ Balance >= DENOM_1_ERG

====
